---- MODULE Spec2Model ----
(***************************************************************************)
(* Mode Visualizer (final-assignment/Wintersteiger/code): peak detection,  *)
(* clustering of peak frequencies into modes, windowed value lookup and    *)
(* corner-vector reconstruction.                                           *)
(*                                                                         *)
(* Numbers.  Frequencies, imaginary parts, level, tol and the window are   *)
(* integers on a fixed grid (one unit = one grid step of the measurement). *)
(* Quantities the code obtains by division (np.mean, 0.5 * v) are exact    *)
(* rationals <<num, den>> with den > 0; they are compared by cross         *)
(* multiplication, so no rounding is modelled.                             *)
(*                                                                         *)
(* A DataFrame is a record [freq |-> <<..>>, imag |-> <<..>>] of two       *)
(* columns of equal length; row i of the frame is index i of both columns  *)
(* (1-based here, 0-based in the source).                                  *)
(***************************************************************************)
EXTENDS Integers, Sequences, FiniteSets

VARIABLES
    df,             \* peak detection: the frame handed to the detector
    level,          \* peak detection: the threshold
    op,             \* peak detection: the function called last ("none" before)
    ret,            \* peak detection: the list it returned
    all_peak_freqs, \* cluster_modes: one list of peak frequencies per curve
    tol,            \* cluster_modes: the tolerance
    min_count,      \* cluster_modes: the minimum number of peaks of a mode
    clusters,       \* cluster_modes: local variable clusters at the return
    modes,          \* cluster_modes: the returned mode frequencies
    f0,             \* value_at / corner_vector: the frequency looked up
    spin_win,       \* value of the window spin box (value_at: parameter df)
    va,             \* value_at: the outcome of the call
    dfs,            \* ModeVisualizer16.dfs: the loaded frame of every key
    cv_p,           \* corner_vector: the point it was called for (0 before)
    cv,             \* corner_vector: the outcome of the call
    paths,          \* ModeVisualizer16.paths: the file chosen for every key
    peaks,          \* ModeVisualizer16.peaks: the peak list of every key
    combo_modes,    \* the combo box of the modes: item count and current index
    ax_frf,         \* the left axes: the curves plotted by draw_frf
    ax_def,         \* the right axes: what draw_mode / clear_def_plot left there
    results_box,    \* the text of the result box
    spin_fmin,      \* values of the spin boxes f_min, f_max, Peak-Level,
    spin_fmax,      \*   Tol and Min Peaks
    spin_level,
    spin_tol,
    spin_minc,
    last,           \* history: the handler that ran last and what it did
    alive           \* FALSE once an exception left a slot (PyQt6 aborts)

peakVars == <<df, level, ret>>
clusterVars == <<all_peak_freqs, tol, min_count, clusters, modes>>
lookupVars == <<f0, spin_win, va>>
cornerVars == <<dfs, cv_p, cv>>

spinVars == <<spin_fmin, spin_fmax, spin_level, spin_tol, spin_minc>>
guiVars == <<paths, peaks, combo_modes, ax_frf, ax_def, results_box,
             spin_fmin, spin_fmax, spin_level, spin_tol, spin_minc, last, alive>>

vars == <<df, level, op, ret, all_peak_freqs, tol, min_count, clusters, modes,
          f0, spin_win, va, dfs, cv_p, cv,
          paths, peaks, combo_modes, ax_frf, ax_def, results_box,
          spin_fmin, spin_fmax, spin_level, spin_tol, spin_minc, last, alive>>

(***************************************************************************)
(* Bounds of the inputs                                                    *)
(***************************************************************************)
MaxLen == 4         \* longest curve
MaxFreq == 4        \* curve frequencies are drawn from 1..MaxFreq
MaxVal == 2         \* imaginary parts are drawn from -MaxVal..MaxVal
MaxLevel == 1       \* level is drawn from 0..MaxLevel
MaxPeaks == 3       \* peak frequencies handed to cluster_modes, all lists together
MaxOffset == 5      \* peak frequencies are drawn from 100..100+MaxOffset
MaxLookupLen == 3   \* longest curve handed to value_at
MaxLookupVal == 1   \* its imaginary parts are drawn from -MaxLookupVal..MaxLookupVal
MaxWin == 2         \* the window width is drawn from 0..MaxWin
MaxCleared == 1     \* files missing at a time once all 16 were chosen

Vals == (0 - MaxVal)..MaxVal

\* np.abs / abs on the grid
Abs(a) == IF a < 0 THEN 0 - a ELSE a

(***************************************************************************)
(* The variables of the functions a specification does not call keep these *)
(* values.                                                                 *)
(***************************************************************************)
ClusterIdle ==
    /\ all_peak_freqs = <<>>
    /\ tol = 0
    /\ min_count = 1
    /\ clusters = <<>>
    /\ modes = <<>>

PeaksIdle ==
    /\ df = [freq |-> <<>>, imag |-> <<>>]
    /\ level = 0
    /\ ret = <<>>

NoValue == [err |-> FALSE, val |-> 0]

LookupIdle ==
    /\ f0 = <<0, 1>>
    /\ spin_win = 0
    /\ va = NoValue

NoVector == [err |-> FALSE, vec |-> << <<0, 1>>, <<0, 1>> >>]

CornerIdle ==
    /\ dfs = <<>>
    /\ cv_p = 0
    /\ cv = NoVector

\* a vector of the right axes: every component the number sign * sqrt(sq)
NoShape == [p \in 1..4 |->
              << [sign |-> 0, sq |-> <<0, 1>>], [sign |-> 0, sq |-> <<0, 1>>] >>]

\* the right axes as add_subplot leaves them
EmptyAxes == [kind |-> "empty", f0 |-> <<0, 1>>,
              u |-> [p \in 1..4 |-> NoVector.vec], u_norm |-> NoShape]

NoHandler == [handler |-> "none", warned |-> FALSE, draws |-> <<>>]

\* the widgets of the window are not part of the call
GuiIdle ==
    /\ paths = <<>>
    /\ peaks = <<>>
    /\ combo_modes = [count |-> 0, index |-> -1]
    /\ ax_frf = <<>>
    /\ ax_def = EmptyAxes
    /\ results_box = ""
    /\ spin_fmin = 0
    /\ spin_fmax = 0
    /\ spin_level = 0
    /\ spin_tol = 0
    /\ spin_minc = 1
    /\ last = NoHandler
    /\ alive = TRUE

(***************************************************************************)
(* Exact rationals <<num, den>>, den > 0                                   *)
(***************************************************************************)
IntRat(n) == <<n, 1>>
RatSub(a, b) == <<a[1] * b[2] - b[1] * a[2], a[2] * b[2]>>
RatAdd(a, b) == <<a[1] * b[2] + b[1] * a[2], a[2] * b[2]>>
RatAbs(a) == <<Abs(a[1]), a[2]>>
RatLE(a, b) == a[1] * b[2] <= b[1] * a[2]
RatLT(a, b) == a[1] * b[2] < b[1] * a[2]
RatEq(a, b) == a[1] * b[2] = b[1] * a[2]
RatMul(a, b) == <<a[1] * b[1], a[2] * b[2]>>
\* a / b for b >= 0; a denominator of 0 stands for the nan or inf of a
\* division by zero
RatDiv(a, b) == <<a[1] * b[2], a[2] * b[1]>>

(***************************************************************************)
(* Frames                                                                  *)
(***************************************************************************)
\* number of rows of a frame
FrameLen(d) == Len(d.freq)

\* f is ascending (strictly when strict = TRUE)
IsAscending(f, strict) ==
    \A i \in 1..(Len(f) - 1) :
        IF strict THEN f[i] < f[i + 1] ELSE f[i] <= f[i + 1]

\* d is a frame of at most maxLen rows with distinct frequencies in
\* 1..maxFreq in ascending order, as load_lvm_as_df leaves the samples of a
\* sweep, and imaginary parts in vals
IsSweepFrame(d, maxLen, maxFreq, vals) ==
    \E n \in 0..maxLen :
        \E f \in { g \in [1..n -> 1..maxFreq] : IsAscending(g, TRUE) } :
            \E y \in [1..n -> vals] :
                d = [freq |-> f, imag |-> y]

(***************************************************************************)
(* ModeVisualizerRun.py: find_positive_peaks / find_negative_peaks         *)
(***************************************************************************)
\* the test of row i with the threshold compared strictly
IsPositivePeakStrictLevel(y, i, lvl) ==
    y[i - 1] < y[i] /\ y[i] > y[i + 1] /\ y[i] > lvl

\* the test of row i with the left neighbour compared non-strictly
IsPositivePeakPlateau(y, i, lvl) ==
    y[i - 1] <= y[i] /\ y[i] > y[i + 1] /\ y[i] >= lvl

\* if y[i - 1] < y[i] and y[i] > y[i + 1] and y[i] >= level
IsPositivePeak(y, i, lvl) ==
    y[i - 1] < y[i] /\ y[i] > y[i + 1] /\ y[i] >= lvl

RECURSIVE PositiveLoop(_, _, _, _, _)
\* for i in range(1, len(df) - 1): rows i = 2 .. n-1 in 1-based numbering
PositiveLoop(x, y, lvl, i, found) ==
    IF i > Len(y) - 1 THEN found
    ELSE PositiveLoop(x, y, lvl, i + 1,
            IF IsPositivePeak(y, i, lvl)
            THEN Append(found, <<x[i], y[i]>>)
            ELSE found)

\* the scan with the last row accepted when it lies above its left neighbour
find_positive_peaks_LastRow(d, lvl) ==
    IF FrameLen(d) < 2 THEN <<>>
    ELSE PositiveLoop(d.freq, d.imag, lvl, 2, <<>>)
         \o (IF /\ d.imag[FrameLen(d) - 1] < d.imag[FrameLen(d)]
                /\ d.imag[FrameLen(d)] >= lvl
             THEN << <<d.freq[FrameLen(d)], d.imag[FrameLen(d)]>> >>
             ELSE <<>>)

find_positive_peaks(d, lvl) ==
    IF FrameLen(d) < 3 THEN <<>>
    ELSE PositiveLoop(d.freq, d.imag, lvl, 2, <<>>)

\* the test of row i with the threshold compared strictly
IsNegativePeakStrictLevel(y, i, lvl) ==
    y[i - 1] > y[i] /\ y[i] < y[i + 1] /\ y[i] < 0 - lvl

\* if y[i - 1] > y[i] and y[i] < y[i + 1] and y[i] <= -level
IsNegativePeak(y, i, lvl) ==
    y[i - 1] > y[i] /\ y[i] < y[i + 1] /\ y[i] <= 0 - lvl

RECURSIVE NegativeLoop(_, _, _, _, _)
NegativeLoop(x, y, lvl, i, found) ==
    IF i > Len(y) - 1 THEN found
    ELSE NegativeLoop(x, y, lvl, i + 1,
            IF IsNegativePeak(y, i, lvl)
            THEN Append(found, <<x[i], y[i]>>)
            ELSE found)

find_negative_peaks(d, lvl) ==
    IF FrameLen(d) < 3 THEN <<>>
    ELSE NegativeLoop(d.freq, d.imag, lvl, 2, <<>>)

(***************************************************************************)
(* sorted(peaks, key=lambda t: t[0]): Python's sort is stable, modelled as *)
(* insertion of each element behind the elements with a key <= its own.    *)
(***************************************************************************)
RECURSIVE InsertByFreq(_, _)
InsertByFreq(s, t) ==
    IF s = <<>> THEN <<t>>
    ELSE IF s[Len(s)][1] <= t[1] THEN Append(s, t)
    ELSE Append(InsertByFreq(SubSeq(s, 1, Len(s) - 1), t), s[Len(s)])

RECURSIVE SortedByFreq(_)
SortedByFreq(s) ==
    IF s = <<>> THEN <<>>
    ELSE InsertByFreq(SortedByFreq(SubSeq(s, 1, Len(s) - 1)), s[Len(s)])

peaks_from_df(d, lvl) ==
    SortedByFreq(find_positive_peaks(d, lvl) \o find_negative_peaks(d, lvl))

(***************************************************************************)
(* ModeAnalyzer.py: the same two detectors, each sorting the frame by      *)
(* frequency before it scans.                                              *)
(***************************************************************************)
\* the rows of a frame as a list of (freq, imag) pairs, and back
Rows(d) == [i \in 1..FrameLen(d) |-> <<d.freq[i], d.imag[i]>>]
FrameOf(rows) == [freq |-> [i \in 1..Len(rows) |-> rows[i][1]],
                  imag |-> [i \in 1..Len(rows) |-> rows[i][2]]]

\* df.sort_values("freq").reset_index(drop=True)
sort_values(d) == FrameOf(SortedByFreq(Rows(d)))

analyzer_find_positive_peaks(d, lvl) ==
    IF FrameLen(d) < 3 THEN <<>>
    ELSE PositiveLoop(sort_values(d).freq, sort_values(d).imag, lvl, 2, <<>>)

analyzer_find_negative_peaks(d, lvl) ==
    IF FrameLen(d) < 3 THEN <<>>
    ELSE NegativeLoop(sort_values(d).freq, sort_values(d).imag, lvl, 2, <<>>)

(***************************************************************************)
(* ModeVisualizerRun.py: cluster_modes                                     *)
(***************************************************************************)
\* the lists of a single peak dropped as well
RECURSIVE NonEmptyListsOverOne(_)
NonEmptyListsOverOne(all) ==
    IF all = <<>> THEN <<>>
    ELSE IF Len(Head(all)) > 1 THEN <<Head(all)>> \o NonEmptyListsOverOne(Tail(all))
    ELSE NonEmptyListsOverOne(Tail(all))

\* for arr in all_peak_freqs: if arr is not None and len(arr) > 0: append
RECURSIVE NonEmptyLists(_)
NonEmptyLists(all) ==
    IF all = <<>> THEN <<>>
    ELSE IF Len(Head(all)) > 0 THEN <<Head(all)>> \o NonEmptyLists(Tail(all))
    ELSE NonEmptyLists(Tail(all))

\* np.concatenate
RECURSIVE Concatenate(_)
Concatenate(lists) ==
    IF lists = <<>> THEN <<>> ELSE Head(lists) \o Concatenate(Tail(lists))

RECURSIVE InsertAsc(_, _)
InsertAsc(s, f) ==
    IF s = <<>> THEN <<f>>
    ELSE IF s[Len(s)] <= f THEN Append(s, f)
    ELSE Append(InsertAsc(SubSeq(s, 1, Len(s) - 1), f), s[Len(s)])

\* the array left in the order of the concatenation
Unsorted(s) == s

\* flat.sort()
RECURSIVE SortedAsc(_)
SortedAsc(s) ==
    IF s = <<>> THEN <<>>
    ELSE InsertAsc(SortedAsc(SubSeq(s, 1, Len(s) - 1)), s[Len(s)])

RECURSIVE Sum(_)
Sum(c) == IF c = <<>> THEN 0 ELSE Head(c) + Sum(Tail(c))

\* the middle between the first and the last member
MeanMidrange(c) == <<c[1] + c[Len(c)], 2>>

\* np.mean(c) of a non-empty list
Mean(c) == <<Sum(c), Len(c)>>

\* the test against the first member of the cluster
JoinsClusterFirst(f, c, t) == Abs(f - c[1]) <= t

\* abs(f - np.mean(clusters[-1])) <= tol
JoinsCluster(f, c, t) == RatLE(RatAbs(RatSub(IntRat(f), Mean(c))), IntRat(t))

\* for f in flat[1:]: join the last cluster or open a new one
RECURSIVE ClusterLoop(_, _, _, _)
ClusterLoop(flat, i, cs, t) ==
    IF i > Len(flat) THEN cs
    ELSE IF JoinsCluster(flat[i], cs[Len(cs)], t)
    THEN ClusterLoop(flat, i + 1, [cs EXCEPT ![Len(cs)] = Append(@, flat[i])], t)
    ELSE ClusterLoop(flat, i + 1, Append(cs, <<flat[i]>>), t)

\* the sorted array flat (empty when no list holds a peak)
FlatOf(all) == SortedAsc(Concatenate(NonEmptyLists(all)))

\* the local variable clusters (no cluster when the function returns early)
ClustersOf(all, t) ==
    IF FlatOf(all) = <<>> THEN <<>>
    ELSE ClusterLoop(FlatOf(all), 2, << <<FlatOf(all)[1]>> >>, t)

\* a cluster needs more than min_count members
SurvivesStrict(c, mc) == Len(c) > mc

\* if len(c) >= int(min_count)
Survives(c, mc) == Len(c) >= mc

\* modes = [float(np.mean(c)) for c in clusters if len(c) >= int(min_count)]
RECURSIVE ModesOf(_, _)
ModesOf(cs, mc) ==
    IF cs = <<>> THEN <<>>
    ELSE IF Survives(Head(cs), mc) THEN <<Mean(Head(cs))>> \o ModesOf(Tail(cs), mc)
    ELSE ModesOf(Tail(cs), mc)

cluster_modes(all, t, mc) == ModesOf(ClustersOf(all, t), mc)

(***************************************************************************)
(* ModeVisualizerRun.py: value_at.  f0 is a rational (a mode frequency is  *)
(* a mean), w is the window width.  The outcome is a record: err = TRUE    *)
(* when the call raises (np.argmin of an empty array), else val is the     *)
(* returned value.                                                         *)
(***************************************************************************)
\* the window with both bounds excluded
InWindowOpen(freq, f, w) ==
    { i \in 1..Len(freq) :
        /\ RatLT(RatSub(f, IntRat(w)), IntRat(freq[i]))
        /\ RatLT(IntRat(freq[i]), RatAdd(f, IntRat(w))) }

\* m = (freq >= f0 - df) & (freq <= f0 + df): the rows selected by the mask
InWindow(freq, f, w) ==
    { i \in 1..Len(freq) :
        /\ RatLE(RatSub(f, IntRat(w)), IntRat(freq[i]))
        /\ RatLE(IntRat(freq[i]), RatAdd(f, IntRat(w))) }

\* the smallest value of the set
MinOf(S) == CHOOSE m \in S : \A x \in S : m <= x

\* np.max over a non-empty set of values
MaxOf(S) == CHOOSE m \in S : \A x \in S : x <= m

\* np.abs(freq - f0)[i]
Distance(freq, f, i) == RatAbs(RatSub(IntRat(freq[i]), f))

\* the last row among those at the smallest distance
ArgMinLast(freq, f) ==
    CHOOSE i \in 1..Len(freq) :
        /\ \A j \in 1..Len(freq) : RatLE(Distance(freq, f, i), Distance(freq, f, j))
        /\ \A j \in (i + 1)..Len(freq) : RatLT(Distance(freq, f, i), Distance(freq, f, j))

\* np.argmin(np.abs(freq - f0)): the first row at the smallest distance
ArgMin(freq, f) ==
    CHOOSE i \in 1..Len(freq) :
        /\ \A j \in 1..Len(freq) : RatLE(Distance(freq, f, i), Distance(freq, f, j))
        /\ \A j \in 1..(i - 1) : RatLT(Distance(freq, f, i), Distance(freq, f, j))

value_at(freq, y, f, w) ==
    IF InWindow(freq, f, w) # {}
    THEN [err |-> FALSE, val |-> MaxOf({ y[i] : i \in InWindow(freq, f, w) })]
    ELSE IF Len(freq) = 0
    THEN [err |-> TRUE, val |-> 0]
    ELSE [err |-> FALSE, val |-> y[ArgMin(freq, f)]]

(***************************************************************************)
(* Specification of value_at: a curve, f0 and the window width are given,  *)
(* and the step is the call.                                               *)
(***************************************************************************)
\* the frequencies looked up: the halves between 1 and MaxFreq
LookupFreqs == { <<n, 2>> : n \in 2..(2 * MaxFreq) }

InitValueAt ==
    /\ IsSweepFrame(df, MaxLookupLen, MaxFreq, (0 - MaxLookupVal)..MaxLookupVal)
    /\ f0 \in LookupFreqs
    /\ spin_win \in 0..MaxWin
    /\ va = NoValue
    /\ op = "none"
    /\ level = 0
    /\ ret = <<>>
    /\ ClusterIdle
    /\ CornerIdle
    /\ GuiIdle

CallValueAt ==
    /\ op = "none"
    /\ op' = "value_at"
    /\ va' = value_at(df.freq, df.imag, f0, spin_win)
    /\ UNCHANGED <<df, level, ret, f0, spin_win>>
    /\ UNCHANGED clusterVars
    /\ UNCHANGED cornerVars
    /\ UNCHANGED guiVars

NextValueAt == CallValueAt

SpecValueAt == InitValueAt /\ [][NextValueAt]_vars

(***************************************************************************)
(* Properties of value_at                                                  *)
(***************************************************************************)
\* the rows of df with f0 - w <= freq <= f0 + w
WindowRows ==
    { i \in 1..FrameLen(df) :
        /\ f0[1] - spin_win * f0[2] <= df.freq[i] * f0[2]
        /\ df.freq[i] * f0[2] <= f0[1] + spin_win * f0[2] }

\* |freq[i] - f0|, in units of 1 / f0[2]
RowDistance(i) == Abs(df.freq[i] * f0[2] - f0[1])

\* C4: value_at returns the maximum of the values of all samples whose
\* frequency lies in the closed window [f0 - df, f0 + df] when there is one;
\* when the window holds no sample it returns the value of the sample
\* nearest to f0, and among samples at equal distance that of the lowest
\* index.
C4_WindowMaxOrNearest ==
    (op = "value_at" /\ FrameLen(df) >= 1) =>
        /\ ~va.err
        /\ WindowRows # {} =>
             /\ \E i \in WindowRows : va.val = df.imag[i]
             /\ \A i \in WindowRows : df.imag[i] <= va.val
        /\ WindowRows = {} =>
             \E i \in 1..FrameLen(df) :
                /\ va.val = df.imag[i]
                /\ \A j \in 1..FrameLen(df) : RowDistance(i) <= RowDistance(j)
                /\ \A j \in 1..(i - 1) : RowDistance(i) < RowDistance(j)

\* the window is empty and two samples with different values are equally
\* near; the value of the first is returned
C4_Witness ==
    /\ op = "value_at"
    /\ WindowRows = {}
    /\ \E i \in 1..FrameLen(df) : \E j \in 1..FrameLen(df) :
         /\ df.freq[i] < df.freq[j]
         /\ RowDistance(i) = RowDistance(j)
         /\ \A k \in 1..FrameLen(df) : RowDistance(i) <= RowDistance(k)
         /\ df.imag[i] # df.imag[j]
         /\ va.val = df.imag[i]

\* value_at of the curve df at f0 with window width w
LookupWith(w) == value_at(df.freq, df.imag, f0, w)

\* C20: value_at is monotone in the window width: for a non-empty curve, f0
\* and widths 0 <= w1 <= w2, value_at(curve, f0, w1) <= value_at(curve, f0, w2),
\* also when the window of width w1 is empty and the nearest sample is
\* returned.  The call is the one with the width spin_win; it is compared
\* with the calls of every smaller and every larger width.
C20_MonotoneInWindow ==
    (op = "value_at" /\ FrameLen(df) >= 1) =>
        /\ \A w1 \in 0..spin_win :
             ~LookupWith(w1).err /\ LookupWith(w1).val <= va.val
        /\ \A w2 \in spin_win..(MaxWin + 1) :
             ~LookupWith(w2).err /\ va.val <= LookupWith(w2).val

\* the call fell back to the nearest sample, and a wider window holds a
\* sample and returns more
C20_Witness ==
    /\ op = "value_at"
    /\ FrameLen(df) >= 2
    /\ WindowRows = {}
    /\ \E w2 \in (spin_win + 1)..(MaxWin + 1) :
         /\ InWindow(df.freq, f0, w2) # {}
         /\ va.val < LookupWith(w2).val

(***************************************************************************)
(* ModeVisualizerRun.py: ModeVisualizer16.keys and corner_vector.  A key   *)
(* "P{p}_{ex}_{m}" is the triple <<p, ex, m>>.  A vector is a pair of      *)
(* rationals; the outcome is a record with err = TRUE when a lookup raised.*)
(***************************************************************************)
Points == 1..4

keys == { <<p, ex, m>> : p \in Points, ex \in {"X", "Y"}, m \in {"x", "y"} }

\* the key built with the number of the next point
CornerKeyNextPoint(p, ex, m) == <<(p % 4) + 1, ex, m>>

\* f"P{p}_{ex}_x" and f"P{p}_{ex}_y"
CornerKey(p, ex, m) == <<p, ex, m>>

\* one pass of the loop body: the lookups mx and my of excitation ex
CornerLookups(d, p, ex, f, w) ==
    [mx |-> value_at(d[CornerKey(p, ex, "x")].freq, d[CornerKey(p, ex, "x")].imag, f, w),
     my |-> value_at(d[CornerKey(p, ex, "y")].freq, d[CornerKey(p, ex, "y")].imag, f, w)]

\* for ex in ("X", "Y"): v += np.array([mx, my]); v starts as np.zeros(2)
RECURSIVE CornerLoop(_, _, _, _, _, _)
CornerLoop(d, p, exs, f, w, v) ==
    IF exs = <<>> THEN v
    ELSE LET m == CornerLookups(d, p, Head(exs), f, w)
         IN  CornerLoop(d, p, Tail(exs), f, w,
                [err |-> v.err \/ m.mx.err \/ m.my.err,
                 sum |-> <<v.sum[1] + m.mx.val, v.sum[2] + m.my.val>>])

\* 0.5 * n
Half(n) == <<n, 2>>

corner_vector(d, p, f, w) ==
    LET v == CornerLoop(d, p, <<"X", "Y">>, f, w, [err |-> FALSE, sum |-> <<0, 0>>])
    IN  IF v.err THEN [err |-> TRUE, vec |-> NoVector.vec]
        ELSE [err |-> FALSE, vec |-> <<Half(v.sum[1]), Half(v.sum[2])>>]

(***************************************************************************)
(* Specification of corner_vector: the 16 curves are loaded, f0 and the    *)
(* window width are given, and the step is the call for one point.         *)
(* The curves: every channel (ex, m) has a sample curve, and every point   *)
(* measures it in phase or in opposite phase.                              *)
(***************************************************************************)
SampleFrames ==
    { [freq |-> <<1, 2, 3>>, imag |-> <<0, 2, -1>>],
      [freq |-> <<1, 3>>, imag |-> <<-2, 1>>] }

Channels == { <<ex, m>> : ex \in {"X", "Y"}, m \in {"x", "y"} }

\* frame c with every imaginary part multiplied by g
Scaled(c, g) == [freq |-> c.freq, imag |-> [i \in 1..Len(c.imag) |-> g * c.imag[i]]]

LoadedCurves ==
    { [k \in keys |-> Scaled(ch[<<k[2], k[3]>>], g[k[1]])] :
        ch \in [Channels -> SampleFrames], g \in [Points -> {-1, 1}] }

InitCorner ==
    /\ dfs \in LoadedCurves
    /\ f0 \in LookupFreqs
    /\ spin_win \in 0..MaxWin
    /\ cv_p = 0
    /\ cv = NoVector
    /\ va = NoValue
    /\ op = "none"
    /\ PeaksIdle
    /\ ClusterIdle
    /\ GuiIdle

CallCornerVector(p) ==
    /\ op = "none"
    /\ op' = "corner_vector"
    /\ cv_p' = p
    /\ cv' = corner_vector(dfs, p, f0, spin_win)
    /\ UNCHANGED <<dfs, f0, spin_win, va>>
    /\ UNCHANGED peakVars
    /\ UNCHANGED clusterVars
    /\ UNCHANGED guiVars

NextCorner == \E p \in Points : CallCornerVector(p)

SpecCorner == InitCorner /\ [][NextCorner]_vars

(***************************************************************************)
(* Properties of corner_vector                                             *)
(***************************************************************************)
\* value_at of the curve of key k at f0 with the current window width
LookupOf(k) == value_at(dfs[k].freq, dfs[k].imag, f0, spin_win).val

\* C10: corner_vector(p, f0) returns 0.5 * ( value_at(P{p}_X_x) +
\* value_at(P{p}_Y_x), value_at(P{p}_X_y) + value_at(P{p}_Y_y) ), each lookup
\* at f0 with the current window width, and it reads only the four curves of
\* point p: with the curves of any other point replaced by another curve the
\* vector is the same.
C10_CornerVector ==
    op = "corner_vector" =>
        /\ ~cv.err
        /\ 2 * cv.vec[1][1] =
               (LookupOf(<<cv_p, "X", "x">>) + LookupOf(<<cv_p, "Y", "x">>)) * cv.vec[1][2]
        /\ 2 * cv.vec[2][1] =
               (LookupOf(<<cv_p, "X", "y">>) + LookupOf(<<cv_p, "Y", "y">>)) * cv.vec[2][2]
        /\ \A q \in Points \ {cv_p} : \A c \in SampleFrames :
             corner_vector([k \in keys |-> IF k[1] = q THEN c ELSE dfs[k]],
                           cv_p, f0, spin_win) = cv

\* the four lookups of the point differ, and another point has other curves
C10_Witness ==
    /\ op = "corner_vector"
    /\ cv_p = 2
    /\ LookupOf(<<2, "X", "x">>) # LookupOf(<<2, "Y", "x">>)
    /\ LookupOf(<<2, "X", "x">>) # LookupOf(<<2, "X", "y">>)
    /\ LookupOf(<<2, "X", "y">>) # LookupOf(<<2, "Y", "y">>)
    /\ dfs[<<1, "X", "x">>] # dfs[<<2, "X", "x">>]
    /\ cv.vec[1][1] # 0

(***************************************************************************)
(* ModeVisualizerRun.py: ModeVisualizer16.draw_mode.  Norms are irrational *)
(* in general, so a norm is held by its square, and a component of a       *)
(* normalised vector, q / denom, by its sign and its square q^2 / denom^2. *)
(* Not modelled: the view limits, the undeformed frame, the animation and  *)
(* the scale box, which only style the drawing of u_norm.                  *)
(***************************************************************************)
\* u = np.array([self.corner_vector(i, f0) for i in range(1, 5)])
Field(d, f, w) == [p \in Points |-> corner_vector(d, p, f, w)]

\* np.linalg.norm(v) ** 2
NormSq(v) == RatAdd(RatMul(v[1], v[1]), RatMul(v[2], v[2]))

\* np.max(np.linalg.norm(u, axis=1)) ** 2
MaxNormSq(u) ==
    LET S == { NormSq(u[p]) : p \in Points }
    IN  CHOOSE m \in S : \A x \in S : RatLE(x, m)

\* the test that never replaces the divisor
IsNegligibleNever(nsq) == FALSE

\* denom < 1e-12.  A component of u is a multiple of half a grid step of the
\* imaginary part, and a grid step is far above 1e-12: on the grid the norm
\* is below 1e-12 exactly when it is 0.
IsNegligible(nsq) == nsq[1] = 0

\* denom ** 2 after "if denom < 1e-12: denom = 1.0"
DenomSq(u) == IF IsNegligible(MaxNormSq(u)) THEN IntRat(1) ELSE MaxNormSq(u)

Sgn(n) == IF n > 0 THEN 1 ELSE IF n < 0 THEN -1 ELSE 0

\* q / denom
Quot(q, dsq) == [sign |-> Sgn(q[1]), sq |-> RatDiv(RatMul(q, q), dsq)]

\* u_norm = u / denom
Normalized(u, dsq) ==
    [p \in Points |-> <<Quot(u[p][1], dsq), Quot(u[p][2], dsq)>>]

\* draw_mode(f0): err = TRUE when a lookup raised; the axes are then left
\* cleared with the title of the mode and without a shape
draw_mode(d, f, w) ==
    LET c == Field(d, f, w)
    IN  IF \E p \in Points : c[p].err
        THEN [err |-> TRUE,
              axes |-> [kind |-> "title", f0 |-> f, u |-> EmptyAxes.u,
                        u_norm |-> NoShape]]
        ELSE LET u == [p \in Points |-> c[p].vec]
             IN  [err |-> FALSE,
                  axes |-> [kind |-> "mode", f0 |-> f, u |-> u,
                            u_norm |-> Normalized(u, DenomSq(u))]]

(***************************************************************************)
(* Specification of draw_mode: the 16 curves are loaded, f0 and the window *)
(* width are given, and the step is the call.  The curves: every channel   *)
(* (ex, m) has a response or none, and every point measures it with its    *)
(* own gain.                                                               *)
(***************************************************************************)
DrawFrames ==
    { [freq |-> <<1, 2, 3>>, imag |-> <<0, 1, 0>>],
      [freq |-> <<1, 2, 3>>, imag |-> <<0, 0, 0>>] }

Gains == {0, 1, 2, 4}

DrawCurves ==
    { [k \in keys |-> Scaled(ch[<<k[2], k[3]>>], g[k[1]])] :
        ch \in [Channels -> DrawFrames], g \in [Points -> Gains] }

\* the frequencies drawn: that of the response and one between two samples
DrawFreqs == { <<2, 1>>, <<5, 2>> }

InitDraw ==
    /\ dfs \in DrawCurves
    /\ f0 \in DrawFreqs
    /\ spin_win \in 0..MaxWin
    /\ cv_p = 0
    /\ cv = NoVector
    /\ va = NoValue
    /\ op = "none"
    /\ PeaksIdle
    /\ ClusterIdle
    /\ GuiIdle

CallDrawMode ==
    /\ op = "none"
    /\ op' = "draw_mode"
    /\ \E r \in {draw_mode(dfs, f0, spin_win)} :
         /\ ax_def' = r.axes
         /\ alive' = ~r.err
    /\ UNCHANGED <<dfs, f0, spin_win, va, cv_p, cv>>
    /\ UNCHANGED peakVars
    /\ UNCHANGED clusterVars
    /\ UNCHANGED <<paths, peaks, combo_modes, ax_frf, results_box, last>>
    /\ UNCHANGED spinVars

NextDraw == CallDrawMode

SpecDraw == InitDraw /\ [][NextDraw]_vars

(***************************************************************************)
(* Properties of draw_mode                                                 *)
(***************************************************************************)
\* the squared norm of the vector of point p before and after the division
ShownNormSq(p) == NormSq(ax_def.u[p])
ShownNormalizedSq(p) == RatAdd(ax_def.u_norm[p][1].sq, ax_def.u_norm[p][2].sq)

\* the largest squared norm of the four vectors of the field
LargestNormSq ==
    LET S == { ShownNormSq(p) : p \in Points }
    IN  CHOOSE m \in S : \A x \in S : RatLE(x, m)

\* component c of the normalised field is the number q / sqrt(dsq)
IsQuotient(c, q, dsq) ==
    /\ c.sq[2] > 0
    /\ c.sign = Sgn(q[1])
    /\ RatEq(RatMul(c.sq, dsq), RatMul(q, q))

\* C11: draw_mode divides every corner vector by the maximum Euclidean norm
\* over the four vectors: when this maximum is at least 1e-12 every
\* normalised norm is <= 1 and the largest is exactly 1 (norms 0.5, 2.0, 1.0
\* become 0.25, 1.0, 0.5); when the maximum is below 1e-12 the divisor is 1,
\* nothing is divided by zero and the field is returned unscaled.
C11_Normalization ==
    op = "draw_mode" =>
        /\ alive /\ ax_def.kind = "mode"
        /\ \A p \in Points : \A i \in 1..2 : ax_def.u_norm[p][i].sq[2] > 0
        /\ ~IsNegligible(LargestNormSq) =>
             /\ \A p \in Points : \A i \in 1..2 :
                  IsQuotient(ax_def.u_norm[p][i], ax_def.u[p][i], LargestNormSq)
             /\ \A p \in Points : RatLE(ShownNormalizedSq(p), IntRat(1))
             /\ \E p \in Points : RatEq(ShownNormalizedSq(p), IntRat(1))
        /\ IsNegligible(LargestNormSq) =>
             \A p \in Points : \A i \in 1..2 :
                IsQuotient(ax_def.u_norm[p][i], ax_def.u[p][i], IntRat(1))
        /\ (/\ RatEq(ShownNormSq(1), <<1, 4>>)
            /\ RatEq(ShownNormSq(2), <<4, 1>>)
            /\ RatEq(ShownNormSq(3), <<1, 1>>)
            /\ RatLE(ShownNormSq(4), <<4, 1>>)) =>
               /\ RatEq(ShownNormalizedSq(1), <<1, 16>>)
               /\ RatEq(ShownNormalizedSq(2), <<1, 1>>)
               /\ RatEq(ShownNormalizedSq(3), <<1, 4>>)

\* the norms 0.5, 2.0 and 1.0 of the example, and a fourth vector with two
\* components
C11_Witness ==
    /\ op = "draw_mode"
    /\ RatEq(ShownNormSq(1), <<1, 4>>)
    /\ RatEq(ShownNormSq(2), <<4, 1>>)
    /\ RatEq(ShownNormSq(3), <<1, 1>>)
    /\ RatEq(ShownNormalizedSq(1), <<1, 16>>)
    /\ RatEq(ShownNormalizedSq(3), <<1, 4>>)

(***************************************************************************)
(* Specification of cluster_modes: the lists, tol and min_count are given, *)
(* and the step is the call.                                               *)
(***************************************************************************)
PeakFreqs == { 100 + o : o \in 0..MaxOffset }

\* a holds the peak frequencies of two curves: a list of at most MaxPeaks
\* frequencies cut in two
IsTwoPeakLists(a) ==
    \E n \in 0..MaxPeaks :
        \E s \in [1..n -> PeakFreqs] :
            \E k \in 0..n :
                a = <<SubSeq(s, 1, k), SubSeq(s, k + 1, n)>>

\* the values of the spin boxes Tol and Min Peaks that are tried
TolValues == {0, 1, 2, 3, 5}
MinCounts == {1, 2, 4}

InitCluster ==
    /\ IsTwoPeakLists(all_peak_freqs)
    /\ tol \in TolValues
    /\ min_count \in MinCounts
    /\ clusters = <<>>
    /\ modes = <<>>
    /\ op = "none"
    /\ PeaksIdle
    /\ LookupIdle
    /\ CornerIdle
    /\ GuiIdle

CallClusterModes ==
    /\ op = "none"
    /\ op' = "cluster_modes"
    /\ clusters' = ClustersOf(all_peak_freqs, tol)
    /\ modes' = cluster_modes(all_peak_freqs, tol, min_count)
    /\ UNCHANGED <<all_peak_freqs, tol, min_count>>
    /\ UNCHANGED peakVars
    /\ UNCHANGED lookupVars
    /\ UNCHANGED cornerVars
    /\ UNCHANGED guiVars

NextCluster == CallClusterModes

SpecCluster == InitCluster /\ [][NextCluster]_vars

(***************************************************************************)
(* Properties of cluster_modes                                             *)
(***************************************************************************)
\* all peak frequencies of the input, in the order of the lists
InputFreqs == Concatenate(all_peak_freqs)

\* the members of all clusters, cluster after cluster
ClusterMembers == Concatenate(clusters)

\* how often value v occurs in list s
Occurrences(s, v) == Cardinality({ i \in 1..Len(s) : s[i] = v })

\* the sum of the members of c, taken from the last member backwards
RECURSIVE MemberTotal(_)
MemberTotal(c) ==
    IF Len(c) = 0 THEN 0 ELSE c[Len(c)] + MemberTotal(SubSeq(c, 1, Len(c) - 1))

\* |f - mean(c)| <= t, for a non-empty c
WithinTolOfMean(f, c, t) == Abs(f * Len(c) - MemberTotal(c)) <= t * Len(c)

\* q is the arithmetic mean of the members of c
IsMeanOf(q, c) == q[2] > 0 /\ q[1] * Len(c) = MemberTotal(c) * q[2]

\* position in ClusterMembers of the first member of cluster k
RECURSIVE ClusterStart(_)
ClusterStart(k) == IF k = 1 THEN 1 ELSE ClusterStart(k - 1) + Len(clusters[k - 1])

\* the cluster that holds position pos of ClusterMembers
ClusterAt(pos) ==
    CHOOSE k \in 1..Len(clusters) :
        ClusterStart(k) <= pos /\ pos < ClusterStart(k) + Len(clusters[k])

\* a < b < c, b within tol of a, c within tol of mean({a, b}), c farther
\* than tol from a
IsDriftTriple(fl, t) ==
    /\ Len(fl) = 3
    /\ fl[1] < fl[2] /\ fl[2] < fl[3]
    /\ fl[2] - fl[1] <= t
    /\ 2 * fl[3] - (fl[1] + fl[2]) <= 2 * t
    /\ fl[3] - fl[1] > t

\* C2: cluster_modes builds its clusters in one left-to-right pass over the
\* ascending-sorted concatenation of all peak frequencies: the clusters are
\* consecutive runs of that sorted list, every member after the first of a
\* cluster is within tol of the mean of the members before it, and the first
\* member of every later cluster is farther than tol from the mean of the
\* whole cluster before it; for a < b < c with b within tol of a, c within
\* tol of mean({a, b}) and c farther than tol from a, c joins {a, b}.
C2_RunningMeanPass ==
    op = "cluster_modes" =>
        /\ IsAscending(ClusterMembers, FALSE)
        /\ Len(ClusterMembers) = Len(InputFreqs)
        /\ \A v \in PeakFreqs :
             Occurrences(ClusterMembers, v) = Occurrences(InputFreqs, v)
        /\ \A k \in 1..Len(clusters) :
             /\ Len(clusters[k]) >= 1
             /\ \A m \in 2..Len(clusters[k]) :
                  WithinTolOfMean(clusters[k][m], SubSeq(clusters[k], 1, m - 1), tol)
             /\ k >= 2 => ~WithinTolOfMean(clusters[k][1], clusters[k - 1], tol)
        /\ IsDriftTriple(ClusterMembers, tol) => Len(clusters) = 1

\* c joined {a, b} although it is farther than tol from a
C2_Witness ==
    /\ op = "cluster_modes"
    /\ IsDriftTriple(ClusterMembers, tol)
    /\ Len(clusters) = 1
    /\ Len(clusters[1]) = 3

\* the clusters with at least min_count members
SurvivingClusters == { k \in 1..Len(clusters) : Len(clusters[k]) >= min_count }

\* C3: cluster_modes returns one mode per cluster with at least min_count
\* members and none for a smaller cluster, and each mode is the arithmetic
\* mean of all members of its cluster; the lists [10.0, 10.3] and [10.1]
\* with tol = 0.5 (grid step 0.1: 100, 103, 101 and tol 5) give exactly one
\* mode, the mean of the three values, for min_count = 2 and no mode for
\* min_count = 4.
C3_ModePerSurvivingCluster ==
    op = "cluster_modes" =>
        /\ Len(modes) = Cardinality(SurvivingClusters)
        /\ \A k \in SurvivingClusters :
             IsMeanOf(modes[Cardinality({ j \in SurvivingClusters : j <= k })],
                      clusters[k])
        /\ (all_peak_freqs = << <<100, 103>>, <<101>> >> /\ tol = 5) =>
             /\ min_count = 2 => Len(modes) = 1 /\ RatEq(modes[1], <<304, 3>>)
             /\ min_count = 4 => modes = <<>>

\* the two lists of the example with min_count = 2
C3_Witness ==
    /\ op = "cluster_modes"
    /\ all_peak_freqs = << <<100, 103>>, <<101>> >>
    /\ tol = 5
    /\ min_count = 2
    /\ Len(modes) = 1

\* C7: for tol > 0 and min_count >= 1 the returned mode frequencies are in
\* strictly ascending order, so no value occurs twice.
C7_ModesStrictlyAscending ==
    (op = "cluster_modes" /\ tol > 0 /\ min_count >= 1) =>
        \A i \in 1..Len(modes) : \A j \in 1..Len(modes) :
            i < j => RatLT(modes[i], modes[j])

\* two modes come out of lists that were not given in ascending order
C7_Witness ==
    /\ op = "cluster_modes"
    /\ tol > 0
    /\ Len(modes) >= 2
    /\ \E i \in 1..(Len(InputFreqs) - 1) : InputFreqs[i] > InputFreqs[i + 1]

\* C8 as stated: any two input peak frequencies f and g with |f - g| < tol
\* are members of the same cluster.
C8_CloserThanTolSameCluster ==
    op = "cluster_modes" =>
        \A i \in 1..Len(ClusterMembers) : \A j \in 1..Len(ClusterMembers) :
            Abs(ClusterMembers[i] - ClusterMembers[j]) < tol
                => ClusterAt(i) = ClusterAt(j)

\* all input values are pairwise farther apart than tol
PairwiseSeparated ==
    \A i \in 1..Len(InputFreqs) : \A j \in 1..Len(InputFreqs) :
        i # j => Abs(InputFreqs[i] - InputFreqs[j]) > tol

\* C9: when all input values are pairwise farther apart than tol, every
\* cluster is a singleton; the number of modes is the number of input values
\* if min_count <= 1 and zero if min_count >= 2, and for min_count <= 1 the
\* modes are the input values themselves in ascending order.
C9_SeparatedInput ==
    (op = "cluster_modes" /\ PairwiseSeparated) =>
        /\ \A k \in 1..Len(clusters) : Len(clusters[k]) = 1
        /\ min_count <= 1 => Len(modes) = Len(InputFreqs)
        /\ min_count >= 2 => Len(modes) = 0
        /\ min_count <= 1 =>
             \A i \in 1..Len(modes) :
                \E p \in 1..Len(InputFreqs) :
                    /\ RatEq(modes[i], IntRat(InputFreqs[p]))
                    /\ Cardinality({ q \in 1..Len(InputFreqs) :
                                        InputFreqs[q] < InputFreqs[p] }) = i - 1

\* separated values, given out of order, come back as one mode each
C9_Witness ==
    /\ op = "cluster_modes"
    /\ PairwiseSeparated
    /\ tol >= 1
    /\ min_count = 1
    /\ Len(InputFreqs) >= 2
    /\ Len(modes) = Len(InputFreqs)
    /\ \E i \in 1..(Len(InputFreqs) - 1) : InputFreqs[i] > InputFreqs[i + 1]

\* the mean of cluster k lies more than tol below the mean of cluster k + 1
MeansApart(k) ==
    MemberTotal(clusters[k + 1]) * Len(clusters[k]) - MemberTotal(clusters[k]) * Len(clusters[k + 1])
        > tol * Len(clusters[k]) * Len(clusters[k + 1])

\* C19: for tol >= 0 any two consecutive clusters have means that differ by
\* more than tol, hence any two distinct returned mode frequencies differ by
\* more than tol; every peak frequency of the input belongs to exactly one
\* cluster: the clusters, one after the other, are the ascending-sorted list
\* of all input frequencies.
C19_MeansApartAndPartition ==
    (op = "cluster_modes" /\ tol >= 0) =>
        /\ \A k \in 1..(Len(clusters) - 1) : MeansApart(k)
        /\ \A i \in 1..Len(modes) : \A j \in 1..Len(modes) :
             ~RatEq(modes[i], modes[j])
                => RatLT(IntRat(tol), RatAbs(RatSub(modes[i], modes[j])))
        /\ Len(ClusterMembers) = Len(InputFreqs)
        /\ IsAscending(ClusterMembers, FALSE)
        /\ \A v \in PeakFreqs :
             Occurrences(ClusterMembers, v) = Occurrences(InputFreqs, v)

\* two modes, the first the mean of a cluster of a list of one peak and a
\* peak of the other list
C19_Witness ==
    /\ op = "cluster_modes"
    /\ tol >= 1
    /\ Len(modes) = 2
    /\ Len(clusters) = 2
    /\ Len(clusters[1]) = 2
    /\ clusters[1][1] # clusters[1][2]
    /\ Len(all_peak_freqs[1]) = 1

(***************************************************************************)
(* Specification of the peak detectors: a frame and a level are given,     *)
(* and the step is one call of one of the functions on them.               *)
(***************************************************************************)
InitPeaks ==
    /\ IsSweepFrame(df, MaxLen, MaxFreq, Vals)
    /\ level \in 0..MaxLevel
    /\ op = "none"
    /\ ret = <<>>
    /\ ClusterIdle
    /\ LookupIdle
    /\ CornerIdle
    /\ GuiIdle

CallFindPositive ==
    /\ op = "none"
    /\ op' = "find_positive_peaks"
    /\ ret' = find_positive_peaks(df, level)
    /\ UNCHANGED <<df, level>>
    /\ UNCHANGED clusterVars
    /\ UNCHANGED lookupVars
    /\ UNCHANGED cornerVars
    /\ UNCHANGED guiVars

CallFindNegative ==
    /\ op = "none"
    /\ op' = "find_negative_peaks"
    /\ ret' = find_negative_peaks(df, level)
    /\ UNCHANGED <<df, level>>
    /\ UNCHANGED clusterVars
    /\ UNCHANGED lookupVars
    /\ UNCHANGED cornerVars
    /\ UNCHANGED guiVars

CallPeaksFromDf ==
    /\ op = "none"
    /\ op' = "peaks_from_df"
    /\ ret' = peaks_from_df(df, level)
    /\ UNCHANGED <<df, level>>
    /\ UNCHANGED clusterVars
    /\ UNCHANGED lookupVars
    /\ UNCHANGED cornerVars
    /\ UNCHANGED guiVars

CallAnalyzerPositive ==
    /\ op = "none"
    /\ op' = "analyzer_find_positive_peaks"
    /\ ret' = analyzer_find_positive_peaks(df, level)
    /\ UNCHANGED <<df, level>>
    /\ UNCHANGED clusterVars
    /\ UNCHANGED lookupVars
    /\ UNCHANGED cornerVars
    /\ UNCHANGED guiVars

CallAnalyzerNegative ==
    /\ op = "none"
    /\ op' = "analyzer_find_negative_peaks"
    /\ ret' = analyzer_find_negative_peaks(df, level)
    /\ UNCHANGED <<df, level>>
    /\ UNCHANGED clusterVars
    /\ UNCHANGED lookupVars
    /\ UNCHANGED cornerVars
    /\ UNCHANGED guiVars

NextPeaks ==
    \/ CallFindPositive
    \/ CallFindNegative
    \/ CallPeaksFromDf
    \/ CallAnalyzerPositive
    \/ CallAnalyzerNegative

SpecPeaks == InitPeaks /\ [][NextPeaks]_vars

(***************************************************************************)
(* Properties of the peak detectors                                        *)
(***************************************************************************)
\* the interior rows of the frame: 1 <= i <= n-2 counted from 0
Interior(d) == 2..(FrameLen(d) - 1)

\* row i is strictly above / strictly below both of its neighbours
StrictLocalMax(d, i) == d.imag[i - 1] < d.imag[i] /\ d.imag[i] > d.imag[i + 1]
StrictLocalMin(d, i) == d.imag[i - 1] > d.imag[i] /\ d.imag[i] < d.imag[i + 1]

PositiveRows(d, lvl) == { i \in Interior(d) : StrictLocalMax(d, i) /\ d.imag[i] >= lvl }
NegativeRows(d, lvl) == { i \in Interior(d) : StrictLocalMin(d, i) /\ d.imag[i] <= 0 - lvl }

\* list r holds exactly the samples of the rows in I, in row order
IsSamplesOf(r, d, I) ==
    /\ Len(r) = Cardinality(I)
    /\ \A i \in I :
         r[Cardinality({ j \in I : j <= i })] = <<d.freq[i], d.imag[i]>>

\* the sample of row i is an element of list r
Returned(r, d, i) == \E k \in 1..Len(r) : r[k] = <<d.freq[i], d.imag[i]>>

\* rows that can never be a peak: the first, the last, and the rows of a plateau
NeverPeakRows(d) ==
    { i \in 1..FrameLen(d) :
        \/ i = 1
        \/ i = FrameLen(d)
        \/ d.imag[i - 1] = d.imag[i]
        \/ d.imag[i] = d.imag[i + 1] }

\* C1: on a curve sorted ascending by frequency with n >= 3 samples and
\* level >= 0, find_positive_peaks returns exactly the samples of the
\* interior rows i with value[i-1] < value[i] > value[i+1] and
\* value[i] >= level, find_negative_peaks exactly those with
\* value[i-1] > value[i] < value[i+1] and value[i] <= -level (in both
\* source files); the first sample, the last sample and the samples of a
\* plateau are never returned.
C1_PeakRule ==
    (FrameLen(df) >= 3 /\ level >= 0) =>
        /\ op \in {"find_positive_peaks", "analyzer_find_positive_peaks"}
              => IsSamplesOf(ret, df, PositiveRows(df, level))
        /\ op \in {"find_negative_peaks", "analyzer_find_negative_peaks"}
              => IsSamplesOf(ret, df, NegativeRows(df, level))
        /\ op \in {"find_positive_peaks", "analyzer_find_positive_peaks",
                    "find_negative_peaks", "analyzer_find_negative_peaks"}
              => \A i \in NeverPeakRows(df) : ~Returned(ret, df, i)

\* a positive peak is returned from a curve that also has a plateau
C1_Witness ==
    /\ op = "find_positive_peaks"
    /\ FrameLen(df) >= 3
    /\ Len(ret) = 1
    /\ \E i \in 1..(FrameLen(df) - 1) : df.imag[i] = df.imag[i + 1]

\* C5 as stated: with level = 0 every interior sample strictly above both
\* neighbours or strictly below both neighbours is in the combined peak
\* list, whatever the sign of its value.
C5_AnyStrictExtremum ==
    (op = "peaks_from_df" /\ level = 0) =>
        \A i \in Interior(df) :
            (StrictLocalMax(df, i) \/ StrictLocalMin(df, i)) => Returned(ret, df, i)

\* C5 amended: with level = 0 the combined peak list holds every interior
\* strict local maximum whose value is >= 0 and every interior strict local
\* minimum whose value is <= 0, whatever its magnitude, and no other sample
\* (a strict maximum below zero or a strict minimum above zero is not
\* matched).
C5_SignedStrictExtremum ==
    (op = "peaks_from_df" /\ level = 0) =>
        \A i \in 1..FrameLen(df) :
            Returned(ret, df, i) <=>
                /\ i \in Interior(df)
                /\ \/ StrictLocalMax(df, i) /\ df.imag[i] >= 0
                   \/ StrictLocalMin(df, i) /\ df.imag[i] <= 0

\* level = 0: a strict minimum of value 0 is matched while the strict maximum
\* of the same curve is matched too
C5_Witness ==
    /\ op = "peaks_from_df"
    /\ level = 0
    /\ Len(ret) = 2
    /\ \E i \in Interior(df) :
         StrictLocalMin(df, i) /\ df.imag[i] = 0 /\ Returned(ret, df, i)

\* the curve rises (weakly) to row k, which is strictly above both of its
\* neighbours, and falls (weakly) behind it: one spike, lower values around
SingleSpike(d, k) ==
    /\ k \in Interior(d)
    /\ d.imag[k] > 0
    /\ StrictLocalMax(d, k)
    /\ \A i \in 1..(k - 1) : d.imag[i] <= d.imag[i + 1]
    /\ \A i \in k..(FrameLen(d) - 1) : d.imag[i] >= d.imag[i + 1]

\* C6: for a curve with a single positive spike of value V at frequency f,
\* surrounded by lower values, and level <= V, find_positive_peaks returns
\* exactly [(f, V)] and find_negative_peaks returns the empty list.
C6_SingleSpike ==
    \A k \in Interior(df) :
        (SingleSpike(df, k) /\ level <= df.imag[k]) =>
            /\ op = "find_positive_peaks" => ret = << <<df.freq[k], df.imag[k]>> >>
            /\ op = "find_negative_peaks" => ret = <<>>

\* the spike is found when the level equals its value
C6_Witness ==
    /\ op = "find_positive_peaks"
    /\ \E k \in Interior(df) :
         /\ SingleSpike(df, k)
         /\ level = df.imag[k]
         /\ ret = << <<df.freq[k], df.imag[k]>> >>

\* C16: for a curve with fewer than 3 samples (the empty curve included)
\* find_positive_peaks and find_negative_peaks return the empty list, for
\* every level (in both source files).
C16_ShortCurveNoPeaks ==
    (/\ FrameLen(df) < 3
     /\ op \in {"find_positive_peaks", "find_negative_peaks",
                "analyzer_find_positive_peaks", "analyzer_find_negative_peaks"})
        => ret = <<>>

\* two samples, the second above the first and above the level
C16_Witness ==
    /\ op = "find_positive_peaks"
    /\ FrameLen(df) = 2
    /\ df.imag[1] < df.imag[2]
    /\ df.imag[2] >= level
    /\ level >= 1
    /\ ret = <<>>

(***************************************************************************)
(* ModeVisualizerRun.py: the window ModeVisualizer16 and its handlers.     *)
(* Frequencies are counted in steps of 0.05 Hz and imaginary parts in      *)
(* steps of 0.01, so that the defaults of the spin boxes lie on the grid:  *)
(* f_min 0.5 Hz = 10, f_max 120 Hz = 2400, Tol 0.8 Hz = 16, window         *)
(* 0.8 Hz = 16, Peak-Level 0.01 = 1, Min Peaks 4.                          *)
(* Not modelled: the path shown in labels[key] (always paths[key]) and the *)
(* check box of the animation.                                             *)
(***************************************************************************)
\* self.keys in the order of the list, which is the order of the dicts
key_list ==
    << <<1, "X", "x">>, <<1, "X", "y">>, <<1, "Y", "x">>, <<1, "Y", "y">>,
       <<2, "X", "x">>, <<2, "X", "y">>, <<2, "Y", "x">>, <<2, "Y", "y">>,
       <<3, "X", "x">>, <<3, "X", "y">>, <<3, "Y", "x">>, <<3, "Y", "y">>,
       <<4, "X", "x">>, <<4, "X", "y">>, <<4, "Y", "x">>, <<4, "Y", "y">> >>

\* the files on disk: the rows (frequency in 0.1 Hz as the measuring system
\* writes it, imaginary part) below the header line, in the order of the
\* file.  low.lvm has a peak at 2 Hz, high.lvm a negative peak at 4 Hz,
\* shifted.lvm its peak at 2.5 Hz, and other_band.lvm is a sweep above
\* 120 Hz.
Disk ==
    [n \in {"low.lvm", "high.lvm", "shifted.lvm", "other_band.lvm"} |->
        CASE n = "low.lvm" ->
               << <<30, 0>>, <<2, 1>>, <<10, 0>>, <<20, 2>>, <<40, 0>>, <<50, 0>> >>
          [] n = "high.lvm" ->
               << <<2, 1>>, <<10, 0>>, <<20, 0>>, <<30, 0>>, <<40, -2>>, <<50, 0>> >>
          [] n = "shifted.lvm" ->
               << <<2, 1>>, <<10, 0>>, <<20, 0>>, <<25, 2>>, <<30, 0>>, <<40, 0>>, <<50, 0>> >>
          [] n = "other_band.lvm" ->
               << <<1300, 0>>, <<1310, 1>>, <<1320, 0>> >>]

\* the files the dialog of key k is answered with: points 1 and 2 respond
\* at the low mode, points 3 and 4 at the high mode, and the first channel
\* was measured three times
FilesFor(k) ==
    IF k = key_list[1] THEN {"low.lvm", "shifted.lvm", "other_band.lvm"}
    ELSE IF k[1] <= 2 THEN {"low.lvm"}
    ELSE {"high.lvm"}

\* df["freq"] * freq_scale with freq_scale = 0.1: 0.1 Hz is two grid steps
ScaleFreq(r) == r * 2

\* load_lvm_as_df(path): err = TRUE when pd.read_csv raises (no such file)
load_lvm_as_df(path) ==
    IF path \notin DOMAIN Disk
    THEN [err |-> TRUE, df |-> [freq |-> <<>>, imag |-> <<>>]]
    ELSE [err |-> FALSE,
          df |-> sort_values(FrameOf([i \in 1..Len(Disk[path]) |->
                        <<ScaleFreq(Disk[path][i][1]), Disk[path][i][2]>>]))]

\* df[(df["freq"] >= fmin) & (df["freq"] <= fmax)].reset_index(drop=True)
FilterRange(d, fmin, fmax) ==
    LET InRange(r) == r[1] >= fmin /\ r[1] <= fmax
    IN  FrameOf(SelectSeq(Rows(d), InRange))

\* the paths tested with any() in place of all()
AnySelected(pth) == \E k \in keys : pth[k] # ""

\* all(self.paths[k] for k in self.keys)
AllSelected(pth) == \A k \in keys : pth[k] # ""

\* the number of keys loaded before the first path that does not load
RECURSIVE LoadedPrefix(_, _)
LoadedPrefix(pth, i) ==
    IF i > Len(key_list) THEN Len(key_list)
    ELSE IF load_lvm_as_df(pth[key_list[i]]).err THEN i - 1
    ELSE LoadedPrefix(pth, i + 1)

\* self.dfs after the loop "for k, path in self.paths.items()", for the
\* first n keys
LoadedCurvesOf(pth, n, fmin, fmax) ==
    [k \in { key_list[i] : i \in 1..n } |->
        FilterRange(load_lvm_as_df(pth[k]).df, fmin, fmax)]

\* self.peaks after the loop "for k, df in self.dfs.items()"
PeaksOf(d, lvl) == [k \in DOMAIN d |-> peaks_from_df(d[k], lvl)]

\* pf = np.array([f for f, _ in pk])
FreqsOf(pk) == [i \in 1..Len(pk) |-> pk[i][1]]

\* all_peak_freqs: one list per key, in the order of the keys
AllPeakFreqsOf(pks) == [i \in 1..Len(key_list) |-> FreqsOf(pks[key_list[i]])]

\* the items kept in the combo box
combo_keep(c) == c

\* self.combo_modes.clear(); currentIndexChanged(-1) calls on_mode_changed,
\* which draws nothing for idx = -1
combo_clear(c) == [count |-> 0, index |-> -1]

\* self.combo_modes.addItem(..): the first item becomes the current one
combo_addItem(c) ==
    [count |-> c.count + 1, index |-> IF c.count = 0 THEN 0 ELSE c.index]

RECURSIVE combo_addItems(_, _)
combo_addItems(c, n) == IF n = 0 THEN c ELSE combo_addItems(combo_addItem(c), n - 1)

\* the right axes after clear_def_plot
ClearedAxes == [EmptyAxes EXCEPT !.kind = "cleared"]

\* the branch taken for any mode list
NoModesNever(m) == FALSE

\* if self.modes.size == 0
NoModes(m) == Len(m) = 0

\* the index test without the lower bound
IndexInRangeNoLower(idx, m) == idx < Len(m)

\* if idx >= 0 and idx < len(self.modes)
IndexInRange(idx, m) == idx >= 0 /\ idx < Len(m)

\* the first mode whatever the index
ModeAtFirst(m, idx) == m[1]

\* float(self.modes[idx]); a negative idx counts from the end
ModeAt(m, idx) == m[IF idx >= 0 THEN idx + 1 ELSE Len(m) + idx + 1]

\* on_mode_changed(idx) on a window with modes m, curves d, window width w
\* and right axes axes: drew = TRUE when draw_mode was called, and draw is
\* its outcome
on_mode_changed(idx, m, d, w, axes) ==
    IF IndexInRange(idx, m)
    THEN [drew |-> TRUE, idx |-> idx, f0 |-> ModeAt(m, idx),
          draw |-> draw_mode(d, ModeAt(m, idx), w)]
    ELSE [drew |-> FALSE, idx |-> idx, f0 |-> <<0, 1>>,
          draw |-> [err |-> FALSE, axes |-> axes]]

\* the entry of the history for a call of draw_mode
DrawEntry(by, idx, f, d) ==
    [by |-> by, idx |-> idx, f0 |-> f, loaded |-> DOMAIN d]

\* the calls of draw_mode made by the call c of on_mode_changed
DrawsOf(c, d) ==
    IF c.drew THEN <<DrawEntry("on_mode_changed", c.idx, c.f0, d)>> ELSE <<>>

\* the fields of the window as one record, and the values of the spin boxes
Window ==
    [paths |-> paths, dfs |-> dfs, peaks |-> peaks, modes |-> modes,
     combo_modes |-> combo_modes, ax_frf |-> ax_frf, ax_def |-> ax_def,
     results_box |-> results_box, alive |-> alive, last |-> last]

Spins ==
    [fmin |-> spin_fmin, fmax |-> spin_fmax, level |-> spin_level,
     tol |-> spin_tol, minc |-> spin_minc, win |-> spin_win]

\* a slot that is not called: nothing drawn, the axes as they are
NotCalled(axes) ==
    [drew |-> FALSE, idx |-> -1, f0 |-> <<0, 1>>,
     draw |-> [err |-> FALSE, axes |-> axes]]

\* run_analysis on window s with the spin values sp: the window when the
\* handler returns, or when an exception leaves it (alive = FALSE).  The
\* text of the result box is held by its kind: "", "none" (no modes found)
\* or "modes" (the list of the modes).
run_analysis(s, sp) ==
    IF ~AllSelected(s.paths)
    THEN [s EXCEPT !.last = [handler |-> "run_analysis", warned |-> TRUE,
                             draws |-> <<>>]]
    ELSE
    LET combo0 == combo_clear(s.combo_modes)
        c0 == IF combo0.index # s.combo_modes.index
              THEN on_mode_changed(combo0.index, s.modes, s.dfs, sp.win, s.ax_def)
              ELSE NotCalled(s.ax_def)
        n == LoadedPrefix(s.paths, 1)
        d == LoadedCurvesOf(s.paths, n, sp.fmin, sp.fmax)
        pk == PeaksOf(d, sp.level)
        all == AllPeakFreqsOf(pk)
        m == cluster_modes(all, sp.tol, sp.minc)
        combo1 == combo_addItem(combo0)
        c1 == IF combo1.index # combo0.index
              THEN on_mode_changed(combo1.index, m, d, sp.win, c0.draw.axes)
              ELSE NotCalled(c0.draw.axes)
        c2 == draw_mode(d, m[1], sp.win)
        reset == [s EXCEPT !.results_box = "",
                           !.combo_modes = combo0,
                           !.ax_def = c0.draw.axes,
                           !.last = [handler |-> "run_analysis", warned |-> FALSE,
                                     draws |-> DrawsOf(c0, s.dfs)]]
        found == [reset EXCEPT !.dfs = d, !.peaks = pk, !.modes = m]
    IN  IF c0.draw.err
        THEN [reset EXCEPT !.alive = FALSE]
        ELSE IF n < Len(key_list)
        THEN [reset EXCEPT !.dfs = d, !.peaks = <<>>, !.modes = <<>>,
                           !.alive = FALSE]
        ELSE IF NoModes(m)
        THEN [found EXCEPT !.results_box = "none", !.ax_frf = d,
                           !.ax_def = ClearedAxes]
        ELSE IF Len(m) = 0
        THEN [found EXCEPT !.results_box = "modes", !.ax_frf = d,
                           !.alive = FALSE]
        ELSE IF c1.draw.err
        THEN [found EXCEPT !.combo_modes = combo1,
                           !.ax_def = c1.draw.axes,
                           !.last.draws = @ \o DrawsOf(c1, d),
                           !.alive = FALSE]
        ELSE [found EXCEPT !.combo_modes = combo_addItems(combo0, Len(m)),
                           !.results_box = "modes",
                           !.ax_frf = d,
                           !.ax_def = c2.axes,
                           !.last.draws = @ \o DrawsOf(c1, d)
                                            \o <<DrawEntry("run_analysis", 0, m[1], d)>>,
                           !.alive = ~c2.err]

(***************************************************************************)
(* Specification of the window: it starts as __init__ leaves it, and a     *)
(* step is one handler run to its end, or one edit of a spin box.  The     *)
(* user chooses the 16 files from the top of the form to the bottom, and   *)
(* later clears and replaces the first and the last of them, at most       *)
(* MaxCleared missing at a time.                                           *)
(***************************************************************************)
\* the values typed into the spin boxes Peak-Level, Min Peaks and window
GuiLevels == {1, 3}
GuiMinCounts == {4, 16}
GuiWins == {16, 20}

InitGui ==
    /\ paths = [k \in keys |-> ""]
    /\ dfs = <<>>
    /\ peaks = <<>>
    /\ modes = <<>>
    /\ combo_modes = [count |-> 0, index |-> -1]
    /\ ax_frf = <<>>
    /\ ax_def = EmptyAxes
    /\ results_box = ""
    /\ spin_fmin = 10
    /\ spin_fmax = 2400
    /\ spin_level = 1
    /\ spin_tol = 16
    /\ spin_minc = 4
    /\ spin_win = 16
    /\ last = NoHandler
    /\ alive = TRUE
    /\ op = "none"
    /\ PeaksIdle
    /\ all_peak_freqs = <<>> /\ tol = 0 /\ min_count = 1 /\ clusters = <<>>
    /\ f0 = <<0, 1>> /\ va = NoValue
    /\ cv_p = 0 /\ cv = NoVector

\* the variables no handler of the window touches
GuiUnchanged ==
    /\ UNCHANGED <<op, all_peak_freqs, tol, min_count, clusters, f0, va, cv_p, cv>>
    /\ UNCHANGED peakVars

\* the keys without a file
Unset == { k \in keys : paths[k] = "" }

\* select_file(key) with the dialog answered by file f
SelectFile(k, f) ==
    /\ alive
    /\ f \in FilesFor(k) \ {paths[k]}
    /\ \/ paths[k] # ""
       \/ \E i \in 1..Len(key_list) :
            /\ k = key_list[i]
            /\ \A j \in 1..(i - 1) : paths[key_list[j]] # ""
    /\ paths' = [paths EXCEPT ![k] = f]
    /\ last' = NoHandler
    /\ UNCHANGED <<dfs, peaks, modes, combo_modes, ax_frf, ax_def, results_box,
                   spin_win, alive>>
    /\ UNCHANGED spinVars
    /\ GuiUnchanged

\* the keys whose button "X" the user presses
ClearKeys == {key_list[1], key_list[Len(key_list)]}

\* clear_file(key)
ClearFile(k) ==
    /\ alive
    /\ k \in ClearKeys
    /\ paths[k] # ""
    /\ Cardinality(Unset) < MaxCleared
    /\ paths' = [paths EXCEPT ![k] = ""]
    /\ last' = NoHandler
    /\ UNCHANGED <<dfs, peaks, modes, combo_modes, ax_frf, ax_def, results_box,
                   spin_win, alive>>
    /\ UNCHANGED spinVars
    /\ GuiUnchanged

\* the user edits a spin box; no slot is connected to any of them
SetLevel(v) ==
    /\ alive
    /\ v # spin_level
    /\ spin_level' = v
    /\ last' = NoHandler
    /\ UNCHANGED <<paths, dfs, peaks, modes, combo_modes, ax_frf, ax_def,
                   results_box, spin_win, alive>>
    /\ UNCHANGED <<spin_fmin, spin_fmax, spin_tol, spin_minc>>
    /\ GuiUnchanged

SetMinCount(v) ==
    /\ alive
    /\ v # spin_minc
    /\ spin_minc' = v
    /\ last' = NoHandler
    /\ UNCHANGED <<paths, dfs, peaks, modes, combo_modes, ax_frf, ax_def,
                   results_box, spin_win, alive>>
    /\ UNCHANGED <<spin_fmin, spin_fmax, spin_level, spin_tol>>
    /\ GuiUnchanged

SetWindow(v) ==
    /\ alive
    /\ v # spin_win
    /\ spin_win' = v
    /\ last' = NoHandler
    /\ UNCHANGED <<paths, dfs, peaks, modes, combo_modes, ax_frf, ax_def,
                   results_box, alive>>
    /\ UNCHANGED spinVars
    /\ GuiUnchanged

\* the button "Analyse starten"
RunAnalysis ==
    /\ alive
    /\ \E r \in {run_analysis(Window, Spins)} :
         /\ dfs' = r.dfs
         /\ peaks' = r.peaks
         /\ modes' = r.modes
         /\ combo_modes' = r.combo_modes
         /\ ax_frf' = r.ax_frf
         /\ ax_def' = r.ax_def
         /\ results_box' = r.results_box
         /\ last' = r.last
         /\ alive' = r.alive
    /\ UNCHANGED <<paths, spin_win>>
    /\ UNCHANGED spinVars
    /\ GuiUnchanged

\* the user picks item idx of the combo box: currentIndexChanged(idx)
OnModeChanged(idx) ==
    /\ alive
    /\ idx # combo_modes.index
    /\ \E c \in {on_mode_changed(idx, modes, dfs, spin_win, ax_def)} :
         /\ ax_def' = c.draw.axes
         /\ alive' = ~c.draw.err
         /\ last' = [handler |-> "on_mode_changed", warned |-> FALSE,
                     draws |-> DrawsOf(c, dfs)]
    /\ combo_modes' = [combo_modes EXCEPT !.index = idx]
    /\ UNCHANGED <<paths, dfs, peaks, modes, ax_frf, results_box, spin_win>>
    /\ UNCHANGED spinVars
    /\ GuiUnchanged

NextGui ==
    \/ \E k \in keys : \E f \in DOMAIN Disk : SelectFile(k, f)
    \/ \E k \in ClearKeys : ClearFile(k)
    \/ \E v \in GuiLevels : SetLevel(v)
    \/ \E v \in GuiMinCounts : SetMinCount(v)
    \/ \E v \in GuiWins : SetWindow(v)
    \/ RunAnalysis
    \/ \E idx \in 0..(combo_modes.count - 1) : OnModeChanged(idx)

SpecGui == InitGui /\ [][NextGui]_vars

(***************************************************************************)
(* Properties of the window                                                *)
(***************************************************************************)
\* the stored results of the analysis and what the window shows of them
Stored == <<dfs, peaks, modes, combo_modes, ax_frf, ax_def, results_box>>

\* every reconstruction of the last handler had the curves of all 16 keys
DrawsWithAllCurves(l) ==
    \A i \in 1..Len(l.draws) : l.draws[i].loaded = keys

\* C12: draw_mode only ever runs while the curves of all 16 channels are
\* loaded, and a run_analysis with at least one path unset only reports an
\* error: it loads, detects, clusters and reconstructs nothing and leaves
\* the stored curves, peaks and modes (and what is shown) as they were.
C12_RefusesIncomplete ==
    [][ /\ DrawsWithAllCurves(last')
        /\ (last'.handler = "run_analysis" /\ Unset # {})
              => /\ last'.warned
                 /\ last'.draws = <<>>
                 /\ alive'
                 /\ UNCHANGED Stored ]_vars

\* a run_analysis refused for a missing file while results of an earlier
\* run are stored
C12_Witness ==
    /\ last.handler = "run_analysis"
    /\ last.warned
    /\ Unset # {}
    /\ Len(modes) > 0
    /\ DOMAIN dfs = keys

\* the mode selected in the combo box
SelectedMode(m, c) == m[c.index + 1]

\* the vectors of the four points computed from curves d at frequency f
\* with window width w
FieldOf(d, f, w) == [p \in Points |-> corner_vector(d, p, f, w).vec]

\* the right axes show the field of the selected mode for window width w
ShowsSelected(axes, d, m, c, w) ==
    /\ c.index >= 0 /\ c.index < Len(m)
    /\ axes.f0 = SelectedMode(m, c)
    /\ axes.u = FieldOf(d, SelectedMode(m, c), w)

\* C13 as stated: whenever a field is shown it is the field of the selected
\* mode computed with the current value of spin_win.
C13_FieldFollowsWindow ==
    (alive /\ ax_def.kind = "mode")
        => ShowsSelected(ax_def, dfs, modes, combo_modes, spin_win)

\* C13, amended: the field is recomputed when draw_mode runs, that is at the
\* end of a run_analysis that found modes and when the selected mode changes,
\* and it is then the field of the selected mode computed from the loaded
\* curves with the window width of that moment; a change of spin_win alone
\* recomputes nothing and leaves the field shown as it was.
C13_FieldFollowsDraw ==
    [][ /\ (last'.draws # <<>> /\ alive')
            => /\ ax_def'.kind = "mode"
               /\ ShowsSelected(ax_def', dfs', modes', combo_modes', spin_win')
        /\ (spin_win' # spin_win) => UNCHANGED <<ax_def, dfs, modes, combo_modes>> ]_vars

\* a field is shown that a changed window width has made out of date, and
\* a field drawn by a change of the selected mode
C13_Witness ==
    /\ alive
    /\ ax_def.kind = "mode"
    /\ ~ShowsSelected(ax_def, dfs, modes, combo_modes, spin_win)
    /\ \E w \in GuiWins \ {spin_win} :
          ShowsSelected(ax_def, dfs, modes, combo_modes, w)
    /\ combo_modes.index > 0

\* the samples of file path inside [fmin, fmax], as (frequency, value)
SamplesInRange(path, fmin, fmax) ==
    { <<ScaleFreq(Disk[path][i][1]), Disk[path][i][2]>> : i \in
        { j \in 1..Len(Disk[path]) :
            /\ ScaleFreq(Disk[path][j][1]) >= fmin
            /\ ScaleFreq(Disk[path][j][1]) <= fmax } }

\* curve d holds exactly the samples of file path inside [fmin, fmax], by
\* ascending frequency
IsFilteredFile(d, path, fmin, fmax) ==
    /\ Len(d.freq) = Len(d.imag)
    /\ \A i \in 1..(Len(d.freq) - 1) : d.freq[i] <= d.freq[i + 1]
    /\ { <<d.freq[i], d.imag[i]>> : i \in 1..Len(d.freq) }
          = SamplesInRange(path, fmin, fmax)
    /\ Len(d.freq) = Cardinality(SamplesInRange(path, fmin, fmax))

\* the peak frequencies of the stored peaks pk, one list per key
PeakFreqLists(pk) ==
    [i \in 1..Len(key_list) |->
        [j \in 1..Len(pk[key_list[i]]) |-> pk[key_list[i]][j][1]]]

\* the handler that just returned is a run_analysis that passed the check
\* of the 16 files and ran to its end
RunCompleted(l, a) == l.handler = "run_analysis" /\ ~l.warned /\ a

\* C14: when a run_analysis that passed the 16-file check completes, the
\* stored curves are the filtered samples of the files now selected, the
\* peaks are those of these curves at the current level, the modes are the
\* clustering of these peaks, the mode list of the combo box has one entry
\* per mode, and the result box and both plots show this run only.
C14_FreshResults ==
    [][ RunCompleted(last', alive') =>
          /\ DOMAIN dfs' = keys
          /\ \A k \in keys :
                IsFilteredFile(dfs'[k], paths'[k], spin_fmin', spin_fmax')
          /\ DOMAIN peaks' = keys
          /\ \A k \in keys : peaks'[k] = peaks_from_df(dfs'[k], spin_level')
          /\ modes' = cluster_modes(PeakFreqLists(peaks'), spin_tol', spin_minc')
          /\ combo_modes'.count = Len(modes')
          /\ combo_modes'.index = (IF Len(modes') = 0 THEN -1 ELSE 0)
          /\ ax_frf' = dfs'
          /\ results_box' = (IF Len(modes') = 0 THEN "none" ELSE "modes")
          /\ IF Len(modes') = 0 THEN ax_def' = ClearedAxes
             ELSE ax_def'.kind = "mode" /\ ax_def'.f0 = modes'[1] ]_vars

\* a completed run whose first channel was read from the file with the
\* shifted peak: the lower mode is the mean of 2.0 Hz seven times and 2.5 Hz
C14_Witness ==
    /\ RunCompleted(last, alive)
    /\ paths[key_list[1]] = "shifted.lvm"
    /\ Len(modes) = 2
    /\ RatEq(modes[1], <<165, 4>>)
    /\ RatEq(modes[2], <<80, 1>>)
    /\ combo_modes.count = 2

\* no channel has a peak
NoPeakAnywhere(pk) == \A k \in DOMAIN pk : pk[k] = <<>>

\* no cluster of the peak frequencies of pk has mc members
NoClusterReaches(pk, t, mc) ==
    \A i \in 1..Len(ClustersOf(PeakFreqLists(pk), t)) :
        Len(ClustersOf(PeakFreqLists(pk), t)[i]) < mc

\* C15: a run_analysis that passed the 16-file check and found no peak in
\* any channel, or no cluster with min_count members, does not raise and
\* ends with "no modes found": the mode list and the combo box are empty,
\* the deformation plot is cleared and draw_mode was not called.
C15_NoModesOutcome ==
    [][ ( /\ last'.handler = "run_analysis" /\ ~last'.warned
          /\ DOMAIN peaks' = keys
          /\ \/ NoPeakAnywhere(peaks')
             \/ NoClusterReaches(peaks', spin_tol', spin_minc') )
        => /\ alive'
           /\ modes' = <<>>
           /\ combo_modes' = [count |-> 0, index |-> -1]
           /\ results_box' = "none"
           /\ ax_def' = ClearedAxes
           /\ last'.draws = <<>> ]_vars

\* a run that found peaks in every channel but no cluster of 16 of them
C15_Witness ==
    /\ last.handler = "run_analysis" /\ ~last.warned
    /\ \A k \in keys : peaks[k] # <<>>
    /\ spin_minc = 16
    /\ modes = <<>>
    /\ ax_def = ClearedAxes
    /\ alive

\* a run at a level no sample reaches
NoPeaksRun ==
    /\ last.handler = "run_analysis" /\ ~last.warned
    /\ DOMAIN peaks = keys
    /\ NoPeakAnywhere(peaks)
    /\ modes = <<>>
    /\ alive

\* every curve of d has at least one sample
AllCurvesNonEmpty(d) == \A k \in DOMAIN d : Len(d[k].freq) > 0

\* C17: whenever draw_mode has run, each of the 16 curves it handed to
\* value_at had at least one sample and the reconstruction completed.
C17_NoEmptyCurveReachesLookup ==
    last.draws # <<>> => (AllCurvesNonEmpty(dfs) /\ alive)

\* f is one of the modes in m
IsModeOf(f, m) == \E i \in 1..Len(m) : m[i] = f

\* C18: between two handlers the mode shown in the deformation plot is one
\* of the current modes and the combo box has one entry per mode; directly
\* after a run_analysis that found modes the mode shown is modes[0]; and
\* on_mode_changed draws only for an index idx with 0 <= idx < len(modes),
\* and then the mode modes[idx].
C18_ShownModeIsCurrent ==
    alive =>
      /\ combo_modes.count = Len(modes)
      /\ ax_def.kind \in {"empty", "cleared", "mode"}
      /\ ax_def.kind = "mode" => IsModeOf(ax_def.f0, modes)
      /\ (last.handler = "run_analysis" /\ ~last.warned /\ Len(modes) > 0)
            => ax_def.kind = "mode" /\ ax_def.f0 = modes[1]
      /\ \A i \in 1..Len(last.draws) :
            last.draws[i].by = "on_mode_changed"
               => /\ last.draws[i].idx >= 0
                  /\ last.draws[i].idx < Len(modes)
                  /\ last.draws[i].f0 = modes[last.draws[i].idx + 1]

\* the second mode is shown after the user selected it in the combo box
C18_Witness ==
    /\ alive
    /\ last.handler = "on_mode_changed"
    /\ Len(last.draws) = 1
    /\ last.draws[1].idx = 1
    /\ ax_def.kind = "mode"
    /\ ax_def.f0 = modes[2]

====
